---- MODULE Spec2Model ----
(***************************************************************************)
(* The Pokedex schema (pokedex/db/tables.py): the tables, their declared   *)
(* keys, the relations wired between them and the derived accessors of     *)
(* Pokemon, Machine, Item and Nature.                                      *)
(*                                                                         *)
(* A table is a set of rows, a row a record of the columns the accessors   *)
(* and the relations read.  A relation() collection is a sequence of rows: *)
(* any order the database may return that satisfies the relation's         *)
(* order_by.  Accessors are operators of the dataset and of the row; an    *)
(* accessor call is an action that records what the call gave in ret.      *)
(***************************************************************************)
EXTENDS Integers, Sequences, FiniteSets, TLC

VARIABLES
    db,          \* the session's tables: table name -> set of rows
    committed,   \* the tables as of the last commit
    loading,     \* a load transaction is open
    load_error,  \* how the last load transaction ended
    ret          \* the last accessor call and its outcome

vars == <<db, committed, loading, load_error, ret>>

\* SQL NULL, and Python's None in an integer column.
NULL == 0 - 1

\* NULL in a Unicode column (a string is a sequence of characters).
NullStr == <<"NULL">>

(***************************************************************************)
(* Bounds of the model.                                                    *)
(***************************************************************************)
MaxStatId == 3
MaxPokemonId == 2
MaxStrLen == 2
MaxDelta == 1
MaxMachines == 2
MaxFlagId == 2
MaxItemId == 2
MaxNatureId == 2
MaxSlot == 2
MaxTypeRows == 2
MaxJunctionRows == 2
MaxTextRows == 2
MaxExperienceRows == 2
MaxMoveLevel == 3
MaxMoveRows == 3

(***************************************************************************)
(* The schema: tables, primary keys, foreign keys.                         *)
(***************************************************************************)
Tables ==
    {"pokemon", "stats", "move_damage_classes", "pokemon_stats", "types",
     "pokemon_types", "items", "item_flags", "item_flag_map", "machines",
     "natures", "version_groups", "moves", "contest_types",
     "abilities", "pokemon_abilities", "move_effects",
     "move_effect_categories", "move_effect_category_map",
     "languages", "versions", "generations",
     "ability_flavor_text", "ability_names", "item_flavor_text",
     "item_names", "move_flavor_text", "move_names", "nature_names",
     "pokemon_flavor_text", "pokemon_names", "type_names",
     "evolution_triggers", "pokemon_evolution",
     "growth_rates", "experience",
     "pokemon_move_methods", "pokemon_moves"}

EmptyDB == [t \in Tables |-> {}]

PokemonPK == {"id"}
\* Faulty variant: the base value is declared a key column too.
PokemonStatPKWithBase == {"pokemon_id", "stat_id", "base_stat"}
PokemonStatPK == {"pokemon_id", "stat_id"}
\* Faulty variant: every column of the row is a key column.
PokemonTypePKAllColumns == {"pokemon_id", "type_id", "slot"}
PokemonTypePK == {"pokemon_id", "slot"}
ItemFlagMapPK == {"item_id", "item_flag_id"}
MachinePK == {"machine_number", "version_group_id"}
\* Faulty variant: the identity of the row is the pair it joins.
PokemonAbilityPKByTarget == {"pokemon_id", "ability_id"}
PokemonAbilityPK == {"pokemon_id", "slot"}
MoveEffectCategoryMapPK ==
    {"move_effect_id", "move_effect_category_id", "affects_user"}
AbilityFlavorTextPK == {"ability_id", "version_group_id"}
AbilityNamePK == {"ability_id", "language_id"}
ItemFlavorTextPK == {"item_id", "version_group_id"}
ItemNamePK == {"item_id", "language_id"}
MoveFlavorTextPK == {"move_id", "version_group_id"}
MoveNamePK == {"move_id", "language_id"}
NatureNamePK == {"nature_id", "language_id"}
PokemonFlavorTextPK == {"pokemon_id", "version_id"}
\* Faulty variant: the text is declared a key column too.
PokemonNamePKWithName == {"pokemon_id", "language_id", "name"}
PokemonNamePK == {"pokemon_id", "language_id"}
TypeNamePK == {"type_id", "language_id"}
\* Faulty variant: the identity of the row is the pair it joins.
PokemonEvolutionPKPair == {"from_pokemon_id", "to_pokemon_id"}
PokemonEvolutionPK == {"to_pokemon_id"}
ExperiencePK == {"growth_rate_id", "level"}
PokemonMovePK ==
    {"pokemon_id", "version_group_id", "move_id", "pokemon_move_method_id",
     "level"}

PrimaryKey(t) ==
    CASE t = "pokemon_stats" -> PokemonStatPK
      [] t = "pokemon_types" -> PokemonTypePK
      [] t = "item_flag_map" -> ItemFlagMapPK
      [] t = "machines" -> MachinePK
      [] t = "pokemon" -> PokemonPK
      [] t = "pokemon_abilities" -> PokemonAbilityPK
      [] t = "move_effect_category_map" -> MoveEffectCategoryMapPK
      [] t = "ability_flavor_text" -> AbilityFlavorTextPK
      [] t = "ability_names" -> AbilityNamePK
      [] t = "item_flavor_text" -> ItemFlavorTextPK
      [] t = "item_names" -> ItemNamePK
      [] t = "move_flavor_text" -> MoveFlavorTextPK
      [] t = "move_names" -> MoveNamePK
      [] t = "nature_names" -> NatureNamePK
      [] t = "pokemon_flavor_text" -> PokemonFlavorTextPK
      [] t = "pokemon_names" -> PokemonNamePK
      [] t = "type_names" -> TypeNamePK
      [] t = "pokemon_evolution" -> PokemonEvolutionPK
      [] t = "experience" -> ExperiencePK
      [] t = "pokemon_moves" -> PokemonMovePK
      [] OTHER -> {"id"}

\* A foreign key is <<column, referenced table>>; every one references id.
\* Faulty variant: the base-form column is declared without its ForeignKey.
PokemonFKUndeclared == {}
PokemonFK == {<<"forme_base_pokemon_id", "pokemon">>}
StatFK == {<<"damage_class_id", "move_damage_classes">>}
PokemonStatFK == {<<"pokemon_id", "pokemon">>, <<"stat_id", "stats">>}
\* Faulty variant: type_id is declared without its ForeignKey.
PokemonTypeFKPokemonOnly == {<<"pokemon_id", "pokemon">>}
PokemonTypeFK == {<<"pokemon_id", "pokemon">>, <<"type_id", "types">>}
ItemFlagMapFK == {<<"item_id", "items">>, <<"item_flag_id", "item_flags">>}
MachineFK ==
    {<<"version_group_id", "version_groups">>, <<"item_id", "items">>,
     <<"move_id", "moves">>}
NatureFK ==
    {<<"decreased_stat_id", "stats">>, <<"increased_stat_id", "stats">>,
     <<"hates_flavor_id", "contest_types">>,
     <<"likes_flavor_id", "contest_types">>}

PokemonAbilityFK == {<<"pokemon_id", "pokemon">>, <<"ability_id", "abilities">>}
MoveEffectCategoryMapFK ==
    {<<"move_effect_id", "move_effects">>,
     <<"move_effect_category_id", "move_effect_categories">>}
PokemonEvolutionFK ==
    {<<"from_pokemon_id", "pokemon">>, <<"to_pokemon_id", "pokemon">>,
     <<"evolution_trigger_id", "evolution_triggers">>}
ExperienceFK == {<<"growth_rate_id", "growth_rates">>}
\* Faulty variant: generation_id is declared without its ForeignKey.
VersionGroupFKUndeclared == {}
VersionGroupFK == {<<"generation_id", "generations">>}
VersionFK == {<<"version_group_id", "version_groups">>}
PokemonMoveFK ==
    {<<"pokemon_id", "pokemon">>, <<"version_group_id", "version_groups">>,
     <<"move_id", "moves">>,
     <<"pokemon_move_method_id", "pokemon_move_methods">>}

\* The *FlavorText and *Name tables: <<owner column, owner table>> and
\* <<version-group, version or language column, its table>>.
TextOwner(t) ==
    CASE t = "ability_flavor_text" -> <<"ability_id", "abilities">>
      [] t = "ability_names" -> <<"ability_id", "abilities">>
      [] t = "item_flavor_text" -> <<"item_id", "items">>
      [] t = "item_names" -> <<"item_id", "items">>
      [] t = "move_flavor_text" -> <<"move_id", "moves">>
      [] t = "move_names" -> <<"move_id", "moves">>
      [] t = "nature_names" -> <<"nature_id", "natures">>
      [] t = "pokemon_flavor_text" -> <<"pokemon_id", "pokemon">>
      [] t = "pokemon_names" -> <<"pokemon_id", "pokemon">>
      [] t = "type_names" -> <<"type_id", "types">>

TextEdition(t) ==
    CASE t \in {"ability_flavor_text", "item_flavor_text", "move_flavor_text"}
           -> <<"version_group_id", "version_groups">>
      [] t = "pokemon_flavor_text" -> <<"version_id", "versions">>
      [] OTHER -> <<"language_id", "languages">>

TextTables ==
    {"ability_flavor_text", "ability_names", "item_flavor_text", "item_names",
     "move_flavor_text", "move_names", "nature_names", "pokemon_flavor_text",
     "pokemon_names", "type_names"}

ForeignKeys(t) ==
    CASE t = "pokemon" -> PokemonFK
      [] t = "pokemon_abilities" -> PokemonAbilityFK
      [] t = "move_effect_category_map" -> MoveEffectCategoryMapFK
      [] t = "pokemon_evolution" -> PokemonEvolutionFK
      [] t = "experience" -> ExperienceFK
      [] t = "pokemon_moves" -> PokemonMoveFK
      [] t = "version_groups" -> VersionGroupFK
      [] t = "versions" -> VersionFK
      [] t \in TextTables -> {TextOwner(t), TextEdition(t)}
      [] t = "stats" -> StatFK
      [] t = "pokemon_stats" -> PokemonStatFK
      [] t = "pokemon_types" -> PokemonTypeFK
      [] t = "item_flag_map" -> ItemFlagMapFK
      [] t = "machines" -> MachineFK
      [] t = "natures" -> NatureFK
      [] OTHER -> {}

\* No two rows of table t of dataset D agree on every primary-key column.
PKUnique(D, t) ==
    \A r1, r2 \in D[t] :
        (\A c \in PrimaryKey(t) : r1[c] = r2[c]) => r1 = r2

\* Every non-NULL foreign key of table t of D references a row of D.
FKResolved(D, t) ==
    \A r \in D[t] : \A fk \in ForeignKeys(t) :
        r[fk[1]] = NULL \/ \E q \in D[fk[2]] : q.id = r[fk[1]]

\* A dataset the declared constraints admit.
ValidDataset(D) == \A t \in Tables : PKUnique(D, t) /\ FKResolved(D, t)

(***************************************************************************)
(* Outcomes of a call, and relation() loading.                             *)
(***************************************************************************)
Return(v) == [outcome |-> "return", value |-> v]
Raise(e, m) == [outcome |-> "raise", exc |-> e, msg |-> m]

\* Python's None as the value of an object-valued expression.
None == [none |-> TRUE]

NoCall == [op |-> "none"]

\* Faulty variant: readers are admitted while a load is in progress.
ReadersAdmittedDuringLoad == TRUE

\* Readers are admitted to the dataset outside the loading phase only.
ReadersAdmitted == ~loading

\* The sequences that hold each element of the finite set S once.
Perms(S) ==
    {f \in [1..Cardinality(S) -> S] :
        \A i, j \in 1..Cardinality(S) : f[i] = f[j] => i = j}

\* What a SELECT ... ORDER BY col ASC over the rows S may return.
OrderedBy(S, col) ==
    {f \in Perms(S) : \A i, j \in 1..Len(f) : i < j => f[i][col] <= f[j][col]}

\* A many-to-one relation(): the row of table t with that id, else None.
ManyToOne(D, t, id) ==
    IF id # NULL /\ \E q \in D[t] : q.id = id
    THEN CHOOSE q \in D[t] : q.id = id
    ELSE None

(***************************************************************************)
(* Pokemon.stats, Pokemon.stat and Pokemon.better_damage_class.            *)
(***************************************************************************)
Threshold == 5

\* The names the stats table may give a stat, and the names asked for.
TableStatNames == {"Attack", "Special Attack"}
StatNames == TableStatNames \cup {"Speed"}
BaseStats == {0, Threshold, Threshold + 1}

\* Faulty variant: the collection is loaded without its order_by.
PokemonStatsUnordered(D, p) ==
    Perms({ps \in D.pokemon_stats : ps.pokemon_id = p.id})

\* Pokemon.stats = relation(PokemonStat, order_by=PokemonStat.stat_id.asc())
Pokemon_stats(D, p) ==
    OrderedBy({ps \in D.pokemon_stats : ps.pokemon_id = p.id}, "stat_id")

\* PokemonStat.stat = relation(Stat); Stat.damage_class = relation(MoveDamageClass)
PokemonStat_stat(D, ps) == ManyToOne(D, "stats", ps.stat_id)
Stat_damage_class(D, s) == ManyToOne(D, "move_damage_classes", s.damage_class_id)

\* The argument of stat(): a Stat row object or a unicode name.
StatObj(s) == [kind |-> "Stat", obj |-> s]
Unicode(n) == [kind |-> "unicode", obj |-> n]
StatArgs(D) == {StatObj(s) : s \in D.stats} \cup {Unicode(n) : n \in StatNames}

\* The loop of stat() from the i-th row of self.stats on, and its raise.
RECURSIVE StatScan(_, _, _, _)
StatScan(D, stats, i, stat_name) ==
    IF i > Len(stats)
    THEN Raise("KeyError", <<"No stat named ", stat_name>>)
    ELSE IF PokemonStat_stat(D, stats[i]) = None
         THEN Raise("AttributeError", <<"NoneType has no attribute ", "name">>)
         ELSE IF PokemonStat_stat(D, stats[i]).name = stat_name
              THEN Return(stats[i])
              ELSE StatScan(D, stats, i + 1, stat_name)

\* Faulty variant: a Stat row object is compared with the names as it is.
StatKeepsObject(D, stats, x) ==
    StatScan(D, stats, 1, IF x.kind = "Stat" THEN "Stat object" ELSE x.obj)

\* Faulty variant: a failed lookup returns None.
StatReturnsNone(D, stats, x) ==
    LET r == StatScan(D, stats, 1, IF x.kind = "Stat" THEN x.obj.name ELSE x.obj)
    IN  IF r.outcome = "raise" /\ r.exc = "KeyError" THEN Return(None) ELSE r

\* Faulty variant: the loop gives up after the first row of self.stats.
StatFirstRowOnly(D, stats, x) ==
    LET n == IF x.kind = "Stat" THEN x.obj.name ELSE x.obj
    IN  IF Len(stats) > 0 /\ PokemonStat_stat(D, stats[1]).name = n
        THEN Return(stats[1])
        ELSE Raise("KeyError", <<"No stat named ", n>>)

\* Pokemon.stat(self, stat_name), self.stats being loaded as stats.
stat(D, stats, x) ==
    StatScan(D, stats, 1, IF x.kind = "Stat" THEN x.obj.name ELSE x.obj)

\* Faulty variant: the comparisons admit the threshold itself.
BetterDamageClassInclusive(D, stats) ==
    LET phys == stat(D, stats, Unicode("Attack"))
        spec == stat(D, stats, Unicode("Special Attack"))
    IN  IF phys.outcome = "raise" THEN phys
        ELSE IF spec.outcome = "raise" THEN spec
        ELSE LET diff == phys.value.base_stat - spec.value.base_stat
             IN  IF diff >= Threshold
                 THEN Return(Stat_damage_class(D, PokemonStat_stat(D, phys.value)))
                 ELSE IF diff =< 0 - Threshold
                      THEN Return(Stat_damage_class(D, PokemonStat_stat(D, spec.value)))
                      ELSE Return(None)

\* Faulty variant: a stat that is not found counts as no preference.
BetterDamageClassDefaultsNone(D, stats) ==
    LET phys == stat(D, stats, Unicode("Attack"))
        spec == stat(D, stats, Unicode("Special Attack"))
    IN  IF phys.outcome = "raise" \/ spec.outcome = "raise" THEN Return(None)
        ELSE LET diff == phys.value.base_stat - spec.value.base_stat
             IN  IF diff > Threshold
                 THEN Return(Stat_damage_class(D, PokemonStat_stat(D, phys.value)))
                 ELSE IF diff < 0 - Threshold
                      THEN Return(Stat_damage_class(D, PokemonStat_stat(D, spec.value)))
                      ELSE Return(None)

\* Pokemon.better_damage_class
better_damage_class(D, stats) ==
    LET phys == stat(D, stats, Unicode("Attack"))
        spec == stat(D, stats, Unicode("Special Attack"))
    IN  IF phys.outcome = "raise" THEN phys
        ELSE IF spec.outcome = "raise" THEN spec
        ELSE LET diff == phys.value.base_stat - spec.value.base_stat
             IN  IF diff > Threshold
                 THEN Return(Stat_damage_class(D, PokemonStat_stat(D, phys.value)))
                 ELSE IF diff < 0 - Threshold
                      THEN Return(Stat_damage_class(D, PokemonStat_stat(D, spec.value)))
                      ELSE Return(None)

CallStat ==
    /\ ReadersAdmitted
    /\ \E p \in db.pokemon : \E stats \in Pokemon_stats(db, p) :
       \E x \in StatArgs(db) :
          ret' = [op |-> "stat", self |-> p.id, arg |-> x,
                  res |-> stat(db, stats, x)]
    /\ UNCHANGED <<db, committed, loading, load_error>>

CallBetterDamageClass ==
    /\ ReadersAdmitted
    /\ \E p \in db.pokemon : \E stats \in Pokemon_stats(db, p) :
          ret' = [op |-> "better_damage_class", self |-> p.id,
                  res |-> better_damage_class(db, stats)]
    /\ UNCHANGED <<db, committed, loading, load_error>>

\* A creature row with the given id, base form and names.
PokemonRow(id, base, name, forme_name) ==
    [id |-> id, name |-> name, forme_name |-> forme_name,
     forme_base_pokemon_id |-> base]

MoveDamageClassRows ==
    {[id |-> 1, name |-> "physical"], [id |-> 2, name |-> "special"]}

\* The stats tables with ids 1..MaxStatId whose damage-class references
\* are drawn from refs, and the stat rows of creature pid with base values
\* drawn from bases.
StatTables(refs) ==
    {{[id |-> i, damage_class_id |-> f[i][1], name |-> f[i][2]] :
         i \in 1..MaxStatId} :
      f \in [1..MaxStatId -> (refs \X TableStatNames)]}

PokemonStatTables(pid, bases) ==
    {{[pokemon_id |-> pid, stat_id |-> i, base_stat |-> g[i], effort |-> 0] :
         i \in {j \in 1..MaxStatId : g[j] # NULL}} :
      g \in [1..MaxStatId -> bases \cup {NULL}]}

\* A loaded dataset: one creature, the stats and the creature's stat rows.
LoadedStats(refs, bases) ==
    /\ \E st \in StatTables(refs) : \E ps \in PokemonStatTables(1, bases) :
          db = [EmptyDB EXCEPT
                  !.move_damage_classes = MoveDamageClassRows,
                  !.stats = st,
                  !.pokemon = {PokemonRow(1, NULL, <<"a">>, NullStr)},
                  !.pokemon_stats = ps]
    /\ ValidDataset(db)
    /\ committed = db
    /\ loading = FALSE
    /\ load_error = "none"
    /\ ret = NoCall

InitStat == LoadedStats({NULL, 1}, {0})

NextStat == CallStat

SpecStat == InitStat /\ [][NextStat]_vars

InitDamage == LoadedStats({NULL, 1, 2}, BaseStats)

NextDamage == CallBetterDamageClass

SpecDamage == InitDamage /\ [][NextDamage]_vars

(***************************************************************************)
(* Claims about stat (SpecStat) and better_damage_class (SpecDamage).       *)
(***************************************************************************)
\* The stat rows of creature pid whose stat has the name n.
NamedRows(pid, n) ==
    {ps \in db.pokemon_stats :
        /\ ps.pokemon_id = pid
        /\ \E s \in db.stats : s.id = ps.stat_id /\ s.name = n}

\* Among them, the one self.stats holds first: the lowest stat id.
FirstNamed(pid, n) ==
    CHOOSE r \in NamedRows(pid, n) :
        \A q \in NamedRows(pid, n) : r.stat_id <= q.stat_id

\* The damage class row a stat row's stat references, None for a NULL.
LinkedClass(ps) ==
    LET s == CHOOSE s \in db.stats : s.id = ps.stat_id
    IN  IF \E c \in db.move_damage_classes : c.id = s.damage_class_id
        THEN CHOOSE c \in db.move_damage_classes : c.id = s.damage_class_id
        ELSE None

\* The name a stat() call asks for.
Requested(x) == IF x.kind = "Stat" THEN x.obj.name ELSE x.obj

\* C1: with an Attack row of base value A and a Special Attack row of base
\* value S (the rows stat() finds: the lowest stat id of that name),
\* better_damage_class returns the class linked to the Attack stat when
\* A - S > 5, the class linked to the Special Attack stat when A - S < -5,
\* and None when -5 <= A - S <= 5.
C1_BetterDamageClass ==
    (/\ ret.op = "better_damage_class"
     /\ NamedRows(ret.self, "Attack") # {}
     /\ NamedRows(ret.self, "Special Attack") # {})
    => LET a == FirstNamed(ret.self, "Attack")
           s == FirstNamed(ret.self, "Special Attack")
       IN  /\ ret.res.outcome = "return"
           /\ (a.base_stat - s.base_stat > 5
                 => ret.res.value = LinkedClass(a))
           /\ (a.base_stat - s.base_stat < 0 - 5
                 => ret.res.value = LinkedClass(s))
           /\ (a.base_stat - s.base_stat >= 0 - 5 /\ a.base_stat - s.base_stat <= 5
                 => ret.res.value = None)

\* C1 witness: a call at the boundary A - S = 5 gave None, in a dataset
\* whose Attack stat is linked to a damage class.
C1_Witness ==
    /\ ret.op = "better_damage_class"
    /\ NamedRows(ret.self, "Attack") # {}
    /\ NamedRows(ret.self, "Special Attack") # {}
    /\ FirstNamed(ret.self, "Attack").base_stat
         - FirstNamed(ret.self, "Special Attack").base_stat = 5
    /\ LinkedClass(FirstNamed(ret.self, "Attack")) # None
    /\ ret.res = Return(None)

\* C4: stat(x) takes a Stat row or a name; when the creature has a row of
\* the requested name it returns the creature's own row of that name (the
\* one of lowest stat id), and a Stat row gives what its name gives.
C4_StatLookup ==
    /\ (ret.op = "stat" /\ NamedRows(ret.self, Requested(ret.arg)) # {})
       => /\ ret.res.outcome = "return"
          /\ ret.res.value \in db.pokemon_stats
          /\ ret.res.value.pokemon_id = ret.self
          /\ ret.res.value = FirstNamed(ret.self, Requested(ret.arg))
    /\ \A p \in db.pokemon : \A stats \in Pokemon_stats(db, p) :
       \A s \in db.stats :
          stat(db, stats, StatObj(s)) = stat(db, stats, Unicode(s.name))

\* C4 witness: a call with a Stat row object returned a row of the creature
\* that is not the first of its stat rows.
C4_Witness ==
    /\ ret.op = "stat"
    /\ ret.arg.kind = "Stat"
    /\ ret.res.outcome = "return"
    /\ ret.res.value.pokemon_id = ret.self
    /\ \E ps \in db.pokemon_stats :
          ps.pokemon_id = ret.self /\ ps.stat_id < ret.res.value.stat_id

\* C5: when no stat row of the creature has the requested name, stat(x)
\* raises KeyError naming the requested stat; it returns nothing.
C5_StatNotFound ==
    (ret.op = "stat" /\ NamedRows(ret.self, Requested(ret.arg)) = {})
    => /\ ret.res.outcome = "raise"
       /\ ret.res.exc = "KeyError"
       /\ ret.res.msg = <<"No stat named ", Requested(ret.arg)>>

\* C5 witness: the lookup of a name failed for a creature that has stat
\* rows, none of them of that name.
C5_Witness ==
    /\ ret.op = "stat"
    /\ ret.res.outcome = "raise"
    /\ ret.arg.kind = "unicode"
    /\ ret.arg.obj = "Attack"
    /\ \E ps \in db.pokemon_stats : ps.pokemon_id = ret.self

(***************************************************************************)
(* Pokemon.national_id and Pokemon.full_name.                              *)
(***************************************************************************)
\* Python's truth value of an integer column and of a unicode column.
IntTruthy(x) == x # NULL /\ x # 0
StrTruthy(u) == u # NullStr /\ Len(u) > 0

\* The characters of the model's strings: a cased letter in both cases and
\* an uncased character.
Alphabet == {"a", "A", " "}
IsCased(c) == c \in {"a", "A"}
ToUpper(c) == IF c = "a" THEN "A" ELSE c
ToLower(c) == IF c = "A" THEN "a" ELSE c

\* unicode.title(): a cased character that follows a cased one is
\* lowercased, any other is uppercased.
Title(u) ==
    [i \in 1..Len(u) |->
        IF i > 1 /\ IsCased(u[i - 1]) THEN ToLower(u[i]) ELSE ToUpper(u[i])]

\* Pokemon.national_id
national_id(p) ==
    IF IntTruthy(p.forme_base_pokemon_id) THEN p.forme_base_pokemon_id ELSE p.id

\* Faulty variant: only a NULL form name counts as no form name.
FullNameOnlyNull(p) ==
    IF p.forme_name # NullStr
    THEN Title(p.forme_name) \o <<" ">> \o p.name
    ELSE p.name

\* Pokemon.full_name
full_name(p) ==
    IF StrTruthy(p.forme_name)
    THEN Title(p.forme_name) \o <<" ">> \o p.name
    ELSE p.name

\* Faulty variant: a base-form reference that is falsy counts as none.
FormeBasePokemonTruthy(D, p) ==
    IF IntTruthy(p.forme_base_pokemon_id)
    THEN ManyToOne(D, "pokemon", p.forme_base_pokemon_id)
    ELSE None

\* Pokemon.forme_base_pokemon, the backref of Pokemon.formes: the row the
\* base-form reference names, None for a NULL.
Pokemon_forme_base_pokemon(D, p) ==
    ManyToOne(D, "pokemon", p.forme_base_pokemon_id)

\* Pokemon.normal_form
normal_form(D, p) ==
    IF Pokemon_forme_base_pokemon(D, p) # None
    THEN Pokemon_forme_base_pokemon(D, p)
    ELSE p

CallNormalForm ==
    /\ ReadersAdmitted
    /\ \E p \in db.pokemon :
          ret' = [op |-> "normal_form", self |-> p.id,
                  res |-> Return(normal_form(db, p))]
    /\ UNCHANGED <<db, committed, loading, load_error>>

CallNationalId ==
    /\ ReadersAdmitted
    /\ \E p \in db.pokemon :
          ret' = [op |-> "national_id", self |-> p.id,
                  res |-> Return(national_id(p))]
    /\ UNCHANGED <<db, committed, loading, load_error>>

CallFullName ==
    /\ ReadersAdmitted
    /\ \E p \in db.pokemon :
          ret' = [op |-> "full_name", self |-> p.id,
                  res |-> Return(full_name(p))]
    /\ UNCHANGED <<db, committed, loading, load_error>>

\* The strings of at most MaxStrLen characters.
Strings == UNION {[1..n -> Alphabet] : n \in 0..MaxStrLen}

\* The pokemon tables over ids 0..MaxPokemonId: each id is absent (NULL - 1)
\* or has a row whose base form is NULL or one of the ids.
PokemonTables ==
    {{PokemonRow(i, g[i], <<"a">>, NullStr) :
         i \in {j \in 0..MaxPokemonId : g[j] # NULL - 1}} :
      g \in [0..MaxPokemonId -> {NULL - 1, NULL} \cup 0..MaxPokemonId]}

Loaded(D) ==
    /\ db = D
    /\ ValidDataset(db)
    /\ committed = db
    /\ loading = FALSE
    /\ load_error = "none"
    /\ ret = NoCall

InitForme == \E pk \in PokemonTables : Loaded([EmptyDB EXCEPT !.pokemon = pk])

NextForme == CallNationalId \/ CallNormalForm

SpecForme == InitForme /\ [][NextForme]_vars

InitName ==
    \E n \in Strings : \E f \in Strings \cup {NullStr} :
        Loaded([EmptyDB EXCEPT !.pokemon = {PokemonRow(1, NULL, n, f)}])

NextName == CallFullName

SpecName == InitName /\ [][NextName]_vars

\* The creature row with that id.
PokemonById(pid) == CHOOSE p \in db.pokemon : p.id = pid

\* C2 (as claimed): national_id is the id of the base form whenever a
\* base-form reference is set, whatever its value, and the creature's own
\* id when there is none.
C2_NationalIdAsClaimed ==
    ret.op = "national_id"
    => LET p == PokemonById(ret.self)
       IN  ret.res.value =
              IF p.forme_base_pokemon_id # NULL
              THEN (CHOOSE b \in db.pokemon : b.id = p.forme_base_pokemon_id).id
              ELSE p.id

\* C14 (as claimed): the base form of a form has no base form: normal_form
\* of a creature is a creature without a base-form reference, normal_form
\* of it is itself, and no creature is its own base form.
C14_BaseHasNoBase ==
    ret.op = "normal_form"
    => /\ ret.res.value.forme_base_pokemon_id = NULL
       /\ normal_form(db, ret.res.value) = ret.res.value
       /\ PokemonById(ret.self).forme_base_pokemon_id # ret.self

\* The title-cased character at place i of form name f: uppercase at the
\* start and after the uncased character, lowercase after a letter.
TitleChar(f, i) ==
    IF f[i] = " " THEN " "
    ELSE IF i = 1 \/ f[i - 1] = " " THEN "A" ELSE "a"

\* C3: full_name is the title-cased form name, one space, then the species
\* name when the form name is non-empty; it is the species name exactly when
\* the form name is NULL or the empty string.
C3_FullName ==
    ret.op = "full_name"
    => LET p == PokemonById(ret.self)
           f == p.forme_name
           n == p.name
           r == ret.res.value
       IN  /\ ret.res.outcome = "return"
           /\ IF f # NullStr /\ f # <<>>
              THEN /\ Len(r) = Len(f) + 1 + Len(n)
                   /\ \A i \in 1..Len(f) : r[i] = TitleChar(f, i)
                   /\ r[Len(f) + 1] = " "
                   /\ \A i \in 1..Len(n) : r[Len(f) + 1 + i] = n[i]
              ELSE r = n

\* C3 witness: a form name that title-casing changes, with its species name.
C3_Witness ==
    /\ ret.op = "full_name"
    /\ PokemonById(ret.self).forme_name = <<"a", "A">>
    /\ PokemonById(ret.self).name = <<"a">>
    /\ ret.res.value = <<"A", "a", " ", "a">>

\* C3 second case reached as well: the empty form name gives the name.
C3_WitnessEmpty ==
    /\ ret.op = "full_name"
    /\ PokemonById(ret.self).forme_name = <<>>
    /\ ret.res.value = PokemonById(ret.self).name

(***************************************************************************)
(* Machine.is_hm, Item.appears_underground and Nature.is_neutral.          *)
(***************************************************************************)
HmMin == 100

\* Faulty variant: the boundary itself is not an HM.
IsHmAbove(m) == m.machine_number > HmMin

\* Machine.is_hm
is_hm(m) == m.machine_number >= HmMin

\* Faulty variant: the join through item_flag_map forgets the item.
ItemFlagsOfAnyItem(D, i) ==
    Perms({f \in D.item_flags :
              \E m \in D.item_flag_map : m.item_flag_id = f.id})

\* Item.flags = relation(ItemFlag, secondary=ItemFlagMap.__table__): the
\* flags the map links to the item, in any order.
Item_flags(D, i) ==
    Perms({f \in D.item_flags :
              \E m \in D.item_flag_map :
                  m.item_id = i.id /\ m.item_flag_id = f.id})

\* Item.appears_underground, self.flags being loaded as flags.
appears_underground(flags) ==
    \E k \in 1..Len(flags) : flags[k].identifier = "underground"

\* Faulty variant: neutral when the flavors agree.
IsNeutralByFlavor(n) == n.likes_flavor_id = n.hates_flavor_id

\* Nature.is_neutral
is_neutral(n) == n.increased_stat_id = n.decreased_stat_id

CallIsHm ==
    /\ ReadersAdmitted
    /\ \E m \in db.machines :
          ret' = [op |-> "is_hm", self |-> m, res |-> Return(is_hm(m))]
    /\ UNCHANGED <<db, committed, loading, load_error>>

CallAppearsUnderground ==
    /\ ReadersAdmitted
    /\ \E i \in db.items : \E flags \in Item_flags(db, i) :
          ret' = [op |-> "appears_underground", self |-> i.id,
                  res |-> Return(appears_underground(flags))]
    /\ UNCHANGED <<db, committed, loading, load_error>>

CallIsNeutral ==
    /\ ReadersAdmitted
    /\ \E n \in db.natures :
          ret' = [op |-> "is_neutral", self |-> n,
                  res |-> Return(is_neutral(n))]
    /\ UNCHANGED <<db, committed, loading, load_error>>

\* Rows of the tables that carry an id alone in this model.
IdRows(ids) == {[id |-> i] : i \in ids}

\* Version groups of generation gen, and versions of version group vg.
VersionGroupRows(ids, gen) == {[id |-> i, generation_id |-> gen] : i \in ids}
VersionRows(ids, vg) == {[id |-> i, version_group_id |-> vg] : i \in ids}

\* The ways to choose at most cap of the keys and a value for each.
KeyedChoices(keys, values, cap) ==
    UNION {[K -> values] : K \in {X \in SUBSET keys : Cardinality(X) <= cap}}

MachineRow(k, v) ==
    [machine_number |-> k[1], version_group_id |-> k[2],
     item_id |-> v[1], move_id |-> v[2]]

MachineTables ==
    {{MachineRow(k, f[k]) : k \in DOMAIN f} :
      f \in KeyedChoices(((HmMin - MaxDelta)..(HmMin + MaxDelta)) \X {1, 2},
                         {1, 2} \X {1, 2}, MaxMachines)}

InitMachine ==
    \E mt \in MachineTables :
        Loaded([EmptyDB EXCEPT !.generations = IdRows({1}),
                               !.version_groups = VersionGroupRows({1, 2}, 1),
                               !.items = IdRows({1, 2}),
                               !.moves = IdRows({1, 2}),
                               !.machines = mt])

NextMachine == CallIsHm

SpecMachine == InitMachine /\ [][NextMachine]_vars

FlagIdentifiers == {"underground", "holdable"}

ItemFlagRow(k, v) == [id |-> k, identifier |-> v, name |-> v]
ItemFlagMapRow(k, v) == [item_id |-> k[1], item_flag_id |-> k[2]]

ItemFlagTables ==
    {{ItemFlagRow(k, f[k]) : k \in DOMAIN f} :
      f \in KeyedChoices(1..MaxFlagId, FlagIdentifiers, MaxFlagId)}

ItemFlagMapTables ==
    {{ItemFlagMapRow(k, f[k]) : k \in DOMAIN f} :
      f \in KeyedChoices((1..MaxItemId) \X (1..MaxFlagId), {0},
                         MaxItemId * MaxFlagId)}

InitItem ==
    \E ft \in ItemFlagTables : \E mp \in ItemFlagMapTables :
        Loaded([EmptyDB EXCEPT !.items = IdRows(1..MaxItemId),
                               !.item_flags = ft,
                               !.item_flag_map = mp])

NextItem == CallAppearsUnderground

SpecItem == InitItem /\ [][NextItem]_vars

NatureRow(k, v) ==
    [id |-> k, decreased_stat_id |-> v[1], increased_stat_id |-> v[2],
     hates_flavor_id |-> v[3], likes_flavor_id |-> v[4]]

NatureTables ==
    {{NatureRow(k, f[k]) : k \in DOMAIN f} :
      f \in KeyedChoices(1..MaxNatureId, {1, 2} \X {1, 2} \X {1, 2} \X {1, 2},
                         MaxNatureId)}

InitNature ==
    \E nt \in NatureTables :
        Loaded([EmptyDB EXCEPT
                  !.stats = {[id |-> 1, damage_class_id |-> NULL, name |-> "Attack"],
                             [id |-> 2, damage_class_id |-> NULL, name |-> "Defense"]},
                  !.contest_types = IdRows({1, 2}),
                  !.natures = nt])

NextNature == CallIsNeutral

SpecNature == InitNature /\ [][NextNature]_vars

\* C6: is_hm is true exactly when machine_number >= 100: false for 99, true
\* for 100, whatever the machine's version group, item and move.
C6_IsHm ==
    ret.op = "is_hm"
    => /\ ret.self \in db.machines
       /\ ret.res.value = TRUE <=> ret.self.machine_number >= 100
       /\ ret.self.machine_number = 99 => ret.res.value = FALSE
       /\ ret.self.machine_number = 100 => ret.res.value = TRUE

\* C6 witness: is_hm was read at the boundary, machine number 100.
C6_Witness ==
    /\ ret.op = "is_hm"
    /\ ret.self.machine_number = 100
    /\ ret.res.value = TRUE
    /\ \E m \in db.machines : m.machine_number = 99

\* C7: appears_underground is true exactly when a flag the item-flag map
\* links to the item has the identifier 'underground'.
C7_AppearsUnderground ==
    ret.op = "appears_underground"
    => (ret.res.value = TRUE
          <=> \E m \in db.item_flag_map : \E f \in db.item_flags :
                 /\ m.item_id = ret.self
                 /\ m.item_flag_id = f.id
                 /\ f.identifier = "underground")

\* C7 witness: an item linked to other flags only gave false while another
\* item of the dataset is linked to the underground flag.
C7_Witness ==
    /\ ret.op = "appears_underground"
    /\ ret.res.value = FALSE
    /\ \E m \in db.item_flag_map : m.item_id = ret.self
    /\ \E m \in db.item_flag_map : \E f \in db.item_flags :
          m.item_id # ret.self /\ m.item_flag_id = f.id
          /\ f.identifier = "underground"

BooleanColumns(t) ==
    IF t = "move_effect_category_map" THEN {"affects_user"} ELSE {}

BindRow(t, r) ==
    [c \in DOMAIN r |->
        IF c \in BooleanColumns(t) THEN (IF r[c] THEN 1 ELSE 0) ELSE r[c]]

ResultRow(t, q) ==
    [c \in DOMAIN q |-> IF c \in BooleanColumns(t) THEN q[c] # 0 ELSE q[c]]

\* The columns declared with nullable=False or primary_key=True, of the
\* columns the rows of the model hold.
PokemonNotNull == {"id", "name"}
PokemonStatNotNull == {"pokemon_id", "stat_id", "base_stat", "effort"}
PokemonTypeNotNull == {"pokemon_id", "type_id", "slot"}
\* Faulty variant: item_flag_id is declared nullable and outside the key.
ItemFlagMapNotNullItemOnly == {"item_id"}
ItemFlagMapNotNull == {"item_id", "item_flag_id"}
\* Faulty variant: generation_id is declared without nullable=False.
VersionGroupNotNullIdOnly == {"id"}
VersionGroupNotNull == {"id", "generation_id"}
VersionNotNull == {"id", "version_group_id"}

\* Of the text tables, the owner and the edition (the texts the model feeds
\* are never NULL); of the other tables, the key columns; the level of a
\* PokemonMove is declared nullable inside its key.
NotNull(t) ==
    CASE t = "pokemon" -> PokemonNotNull
      [] t = "pokemon_stats" -> PokemonStatNotNull
      [] t = "pokemon_types" -> PokemonTypeNotNull
      [] t = "item_flag_map" -> ItemFlagMapNotNull
      [] t = "version_groups" -> VersionGroupNotNull
      [] t = "versions" -> VersionNotNull
      [] t \in TextTables -> {TextOwner(t)[1], TextEdition(t)[1]}
      [] t = "pokemon_moves" -> PrimaryKey(t) \ {"level"}
      [] OTHER -> PrimaryKey(t)

\* Unicode(n) columns of the rows of the model, with the declared length.
PokemonNameLength == 20
PokemonFormeNameLength == 16

UnicodeLength(t) ==
    IF t = "pokemon"
    THEN [name |-> PokemonNameLength, forme_name |-> PokemonFormeNameLength]
    ELSE <<>>

\* Row r of table t has a value in every non-nullable column and no text
\* longer than the declared length of its column.
RowValid(t, r) ==
    /\ \A c \in DOMAIN r \cap NotNull(t) :
          r[c] # (IF c \in DOMAIN UnicodeLength(t) THEN NullStr ELSE NULL)
    /\ \A c \in DOMAIN r \cap DOMAIN UnicodeLength(t) :
          r[c] = NullStr \/ Len(r[c]) <= UnicodeLength(t)[c]

\* Row r collides with a row of table t of dataset D on the primary key.
Collides(D, t, r) ==
    \E q \in D[t] : \A c \in PrimaryKey(t) : q[c] = r[c]

\* What readers were given before is of the dataset before this load.
BeginLoad ==
    /\ ~loading
    /\ loading' = TRUE
    /\ load_error' = "none"
    /\ ret' = NoCall
    /\ UNCHANGED <<db, committed>>

Insert(t, r) ==
    /\ loading
    /\ RowValid(t, BindRow(t, r))
    /\ ~Collides(db, t, BindRow(t, r))
    /\ db' = [db EXCEPT ![t] = @ \cup {BindRow(t, r)}]
    /\ UNCHANGED <<committed, loading, load_error, ret>>

InsertCollision(t, r) ==
    /\ loading
    /\ Collides(db, t, BindRow(t, r))
    /\ db' = committed
    /\ loading' = FALSE
    /\ load_error' = "IntegrityError: primary key"
    /\ UNCHANGED <<committed, ret>>

\* A NULL in a non-nullable column or a text longer than its column fails
\* the write and the load it is part of.
InsertInvalid(t, r) ==
    /\ loading
    /\ ~RowValid(t, BindRow(t, r))
    /\ db' = committed
    /\ loading' = FALSE
    /\ load_error' = "IntegrityError: constraint"
    /\ UNCHANGED <<committed, ret>>

EndLoadCommit ==
    /\ loading
    /\ \A t \in Tables : FKResolved(db, t)
    /\ committed' = db
    /\ loading' = FALSE
    /\ UNCHANGED <<db, load_error, ret>>

EndLoadReject ==
    /\ loading
    /\ ~(\A t \in Tables : FKResolved(db, t))
    /\ db' = committed
    /\ loading' = FALSE
    /\ load_error' = "IntegrityError: foreign key"
    /\ UNCHANGED <<committed, ret>>

\* Faulty variant: the collection is loaded without its order_by.
PokemonTypesUnordered(D, p) ==
    Perms({pt \in D.pokemon_types :
              pt.pokemon_id = p.id /\ \E ty \in D.types : ty.id = pt.type_id})

\* Pokemon.types = relation(Type, secondary=PokemonType.__table__,
\* order_by=PokemonType.slot.asc()): the join rows in the order loaded.
Pokemon_types(D, p) ==
    OrderedBy({pt \in D.pokemon_types :
                  pt.pokemon_id = p.id /\ \E ty \in D.types : ty.id = pt.type_id},
              "slot")

CallTypes ==
    /\ ReadersAdmitted
    /\ \E p \in db.pokemon : \E via \in Pokemon_types(db, p) :
          ret' = [op |-> "types", self |-> p.id, via |-> via,
                  res |-> Return([k \in 1..Len(via) |->
                                    ManyToOne(db, "types", via[k].type_id)])]
    /\ UNCHANGED <<db, committed, loading, load_error>>

\* The rows the loader may feed: two creatures, each with no base form or
\* with one of the two as its base form, two types, and rows that give a
\* creature a type in a slot.
LoadPokemonIds == {1, 2}
LoadTypeIds == {1, 2}

LoadRows(t) ==
    CASE t = "pokemon" ->
           {PokemonRow(i, b, <<"a">>, NullStr) :
              i \in LoadPokemonIds, b \in {NULL} \cup LoadPokemonIds}
      [] t = "types" -> IdRows(LoadTypeIds)
      [] t = "pokemon_types" ->
           {[pokemon_id |-> i, type_id |-> ty, slot |-> sl] :
              i \in LoadPokemonIds, ty \in LoadTypeIds, sl \in 1..MaxSlot}
      [] OTHER -> {}

\* The model holds at most MaxTypeRows rows of pokemon_types.
RoomFor(t) == t = "pokemon_types" => Cardinality(db[t]) < MaxTypeRows

LoadTables == {"pokemon", "types", "pokemon_types"}

InitLoad ==
    /\ db = EmptyDB
    /\ committed = EmptyDB
    /\ loading = FALSE
    /\ load_error = "none"
    /\ ret = NoCall

NextLoad ==
    \/ BeginLoad
    \/ \E t \in LoadTables : \E r \in LoadRows(t) : RoomFor(t) /\ Insert(t, r)
    \/ \E t \in LoadTables : \E r \in LoadRows(t) : InsertCollision(t, r)
    \/ EndLoadCommit
    \/ EndLoadReject
    \/ CallTypes

SpecLoad == InitLoad /\ [][NextLoad]_vars

(***************************************************************************)
(* The association tables: PokemonType, PokemonAbility and                 *)
(* MoveEffectCategoryMap, loaded into a dataset that holds the rows they   *)
(* reference, and read back by primary key.                                *)
(***************************************************************************)
\* The primary key of row r of table t, as the columns' values.
KeyOf(t, r) == [c \in PrimaryKey(t) |-> r[c]]

\* The read of the row of table t with primary key k (a record that holds
\* the key columns): the row, else None.
get(D, t, k) ==
    IF \E q \in D[t] : KeyOf(t, q) = KeyOf(t, BindRow(t, k))
    THEN ResultRow(t, CHOOSE q \in D[t] : KeyOf(t, q) = KeyOf(t, BindRow(t, k)))
    ELSE None

JunctionTables == {"pokemon_types", "pokemon_abilities", "move_effect_category_map"}

\* The rows fed: creature 1 in slots 1..MaxSlot with a type or an ability
\* of which the third does not exist, and the effect-category links.
JunctionTargetIds == {1, 2, 3}

JunctionRows(t) ==
    CASE t = "pokemon_types" ->
           {[pokemon_id |-> 1, type_id |-> ty, slot |-> sl] :
              ty \in JunctionTargetIds, sl \in 1..MaxSlot}
      [] t = "pokemon_abilities" ->
           {[pokemon_id |-> 1, ability_id |-> a, slot |-> sl] :
              a \in JunctionTargetIds, sl \in 1..MaxSlot}
      [] t = "move_effect_category_map" ->
           {[move_effect_id |-> 1, move_effect_category_id |-> c,
             affects_user |-> u] : c \in {1, 2}, u \in BOOLEAN}

JunctionCount == Cardinality(UNION {db[t] : t \in JunctionTables})

CallGet ==
    /\ ReadersAdmitted
    /\ \E t \in JunctionTables : \E r \in JunctionRows(t) :
          ret' = [op |-> "get", table |-> t, key |-> KeyOf(t, r),
                  res |-> Return(get(db, t, r))]
    /\ UNCHANGED <<db, committed, loading, load_error>>

InitJunction ==
    Loaded([EmptyDB EXCEPT !.pokemon = {PokemonRow(1, NULL, <<"a">>, NullStr)},
                           !.types = IdRows({1, 2}),
                           !.abilities = IdRows({1, 2}),
                           !.move_effects = IdRows({1}),
                           !.move_effect_categories = IdRows({1, 2})])

NextJunction ==
    \/ BeginLoad
    \/ \E t \in JunctionTables : \E r \in JunctionRows(t) :
          JunctionCount < MaxJunctionRows /\ Insert(t, r)
    \/ \E t \in JunctionTables : \E r \in JunctionRows(t) : InsertCollision(t, r)
    \/ EndLoadCommit
    \/ EndLoadReject
    \/ CallGet

SpecJunction == InitJunction /\ [][NextJunction]_vars

\* The composite key the association rows are read back by.
JunctionKey(t) ==
    IF t = "move_effect_category_map"
    THEN {"move_effect_id", "move_effect_category_id", "affects_user"}
    ELSE {"pokemon_id", "slot"}

\* The rows of table t written into dataset D, as they were fed.
Written(D, t) == {r \in JunctionRows(t) : BindRow(t, r) \in D[t]}

\* C11: an association row that was written is read back by its composite
\* key with the key and payload columns it was written with, and it still
\* is after rows with other keys were written.
C11_RoundTrip ==
    /\ [](ret.op = "get"
            => \A r \in Written(db, ret.table) :
                  (\A c \in JunctionKey(ret.table) : r[c] = ret.key[c])
                  => ret.res.value = r)
    /\ [](\A t \in JunctionTables : \A r \in Written(db, t) : get(db, t, r) = r)
    /\ [][\A t \in JunctionTables : \A r \in Written(committed, t) :
             get(committed', t, r) = r /\ get(db', t, r) = r]_vars

\* C11 witness: a PokemonType row was read back with its type while a
\* second row of the creature, written in a later load, is stored too; and
\* a link with a boolean key column is stored.
C11_Witness ==
    /\ ret.op = "get"
    /\ ret.table = "pokemon_types"
    /\ ret.res.value = [pokemon_id |-> 1, type_id |-> 2, slot |-> 1]
    /\ Cardinality(db.pokemon_types) = 2

TextColumn(t) ==
    IF t \in {"ability_flavor_text", "item_flavor_text", "move_flavor_text",
               "pokemon_flavor_text"}
    THEN "flavor_text" ELSE "name"

TextRow(t, owner, edition, text) ==
    [c \in {TextOwner(t)[1], TextEdition(t)[1], TextColumn(t)} |->
        IF c = TextOwner(t)[1] THEN owner
        ELSE IF c = TextEdition(t)[1] THEN edition ELSE text]

\* The rows fed: two texts for owner 1 in edition 1, a text for owner 2, and
\* a text in edition 2, which does not exist.
TextRows(t) ==
    {TextRow(t, 1, 1, "x"), TextRow(t, 1, 1, "y"), TextRow(t, 2, 1, "x"),
     TextRow(t, 1, 2, "x")}

TextCount == Cardinality(UNION {{<<t, r>> : r \in db[t]} : t \in TextTables})

InitText ==
    Loaded([EmptyDB EXCEPT
              !.pokemon = {PokemonRow(1, NULL, <<"a">>, NullStr),
                           PokemonRow(2, NULL, <<"a">>, NullStr)},
              !.abilities = IdRows({1, 2}),
              !.items = IdRows({1, 2}),
              !.moves = IdRows({1, 2}),
              !.types = IdRows({1, 2}),
              !.stats = {[id |-> 1, damage_class_id |-> NULL, name |-> "Attack"]},
              !.contest_types = IdRows({1}),
              !.natures = {NatureRow(1, <<1, 1, 1, 1>>),
                           NatureRow(2, <<1, 1, 1, 1>>)},
              !.generations = IdRows({1}),
              !.version_groups = VersionGroupRows({1}, 1),
              !.versions = VersionRows({1}, 1),
              !.languages = IdRows({1})])

NextText ==
    \/ BeginLoad
    \/ \E t \in TextTables : \E r \in TextRows(t) :
          TextCount < MaxTextRows /\ Insert(t, r)
    \/ \E t \in TextTables : \E r \in TextRows(t) : InsertCollision(t, r)
    \/ EndLoadCommit
    \/ EndLoadReject

SpecText == InitText /\ [][NextText]_vars

\* Rows q and r of text table t are of the same (owner, edition) pair.
SamePair(t, q, r) ==
    /\ q[TextOwner(t)[1]] = r[TextOwner(t)[1]]
    /\ q[TextEdition(t)[1]] = r[TextEdition(t)[1]]

Pokemon_parent_pokemon(D, p) ==
    IF \E e \in D.pokemon_evolution : e.to_pokemon_id = p.id
    THEN ManyToOne(D, "pokemon",
                   (CHOOSE e \in D.pokemon_evolution :
                       e.to_pokemon_id = p.id).from_pokemon_id)
    ELSE None

CallParentPokemon ==
    /\ ReadersAdmitted
    /\ \E p \in db.pokemon :
          ret' = [op |-> "parent_pokemon", self |-> p.id,
                  res |-> Return(Pokemon_parent_pokemon(db, p))]
    /\ UNCHANGED <<db, committed, loading, load_error>>

\* The rows fed: an evolution from and to each of three creatures, with
\* the trigger that exists or one that does not.
EvolutionPokemonIds == {1, 2, 3}

EvolutionRows ==
    {[from_pokemon_id |-> f, to_pokemon_id |-> t, evolution_trigger_id |-> g] :
       f \in EvolutionPokemonIds, t \in EvolutionPokemonIds, g \in {1, 2}}

InitEvolution ==
    Loaded([EmptyDB EXCEPT
              !.pokemon = {PokemonRow(i, NULL, <<"a">>, NullStr) :
                             i \in EvolutionPokemonIds},
              !.evolution_triggers = IdRows({1})])

NextEvolution ==
    \/ BeginLoad
    \/ \E r \in EvolutionRows : Insert("pokemon_evolution", r)
    \/ \E r \in EvolutionRows : InsertCollision("pokemon_evolution", r)
    \/ EndLoadCommit
    \/ EndLoadReject
    \/ CallParentPokemon

SpecEvolution == InitEvolution /\ [][NextEvolution]_vars

\* The creature n evolutionary-parent links above creature p, None when the
\* walk has ended before.
RECURSIVE Ancestor(_, _, _)
Ancestor(D, p, n) ==
    IF n = 0 \/ p = None THEN p
    ELSE Ancestor(D, Pokemon_parent_pokemon(D, p), n - 1)

\* C15 (as claimed): no creature is its own evolutionary ancestor: the walk
\* along the parent links from any creature of a loaded dataset never comes
\* back to a creature, so it ends within as many steps as there are
\* creatures.
C15_EvolutionAcyclic ==
    ~loading
    => \A p \in db.pokemon :
          /\ \A n \in 1..Cardinality(db.pokemon) : Ancestor(db, p, n) # p
          /\ Ancestor(db, p, Cardinality(db.pokemon)) = None

(***************************************************************************)
(* The readers of a loaded dataset: every derived accessor and the         *)
(* relationship traversals, on each kind of loaded dataset.                *)
(***************************************************************************)
InitRead ==
    \/ InitStat
    \/ InitForme
    \/ InitName
    \/ InitMachine
    \/ InitItem
    \/ InitNature

NextRead ==
    \/ CallNationalId
    \/ CallFullName
    \/ CallNormalForm
    \/ CallStat
    \/ CallBetterDamageClass
    \/ CallIsHm
    \/ CallAppearsUnderground
    \/ CallIsNeutral
    \/ CallTypes
    \/ CallParentPokemon

SpecRead == InitRead /\ [][NextRead]_vars

DerivedAccessors ==
    {"national_id", "full_name", "normal_form", "stat", "better_damage_class",
     "is_hm", "appears_underground", "is_neutral"}

\* Call b is a call of the accessor of call a on the same row, and for
\* stat() with the same argument.
SameCall(a, b) ==
    /\ a.op \in DerivedAccessors
    /\ b.op = a.op
    /\ b.self = a.self
    /\ a.op = "stat" => (b.arg.kind = a.arg.kind /\ b.arg.obj = a.arg.obj)

\* C16: on a loaded dataset every derived accessor and every relationship
\* traversal leaves every row of every table as it is, and a derived
\* accessor called again on the same row gives the same result, however
\* the collections it reads are loaded.
C16_ReadOnly ==
    /\ [][db' = db /\ committed' = committed /\ ~loading']_vars
    /\ [][SameCall(ret, ret') => ret'.res = ret.res]_vars
    /\ [](\A i \in db.items : \A f1, f2 \in Item_flags(db, i) :
            appears_underground(f1) = appears_underground(f2))
    /\ [](\A p \in db.pokemon : \A s1, s2 \in Pokemon_stats(db, p) :
            /\ better_damage_class(db, s1) = better_damage_class(db, s2)
            /\ \A x \in StatArgs(db) : stat(db, s1, x) = stat(db, s2, x))

\* C16 witness: stat() was called for a name that two stat rows of the
\* creature have, and returned one of them.
C16_Witness ==
    /\ ret.op = "stat"
    /\ Cardinality(NamedRows(ret.self, Requested(ret.arg))) >= 2
    /\ ret.res.outcome = "return"
    /\ db = committed

(***************************************************************************)
(* GrowthRate.max_experience, with the experience table loaded into a      *)
(* dataset that holds the growth rates.                                    *)
(***************************************************************************)
TopLevel == 100

\* Faulty variant: the join takes the levels from 100 up.
MaxExperienceObjFromTopLevel(D, g) ==
    LET rows == {e \in D.experience :
                    e.growth_rate_id = g.id /\ e.level >= TopLevel}
    IN  IF rows = {} THEN {None} ELSE rows

\* GrowthRate.max_experience_obj = relation(Experience, primaryjoin=and_(
\* Experience.growth_rate_id == GrowthRate.id, Experience.level == 100),
\* uselist=False): the rows it may give, None when none matches.
GrowthRate_max_experience_obj(D, g) ==
    LET rows == {e \in D.experience :
                    e.growth_rate_id = g.id /\ e.level = TopLevel}
    IN  IF rows = {} THEN {None} ELSE rows

\* GrowthRate.max_experience = association_proxy('max_experience_obj',
\* 'experience'): the attribute of the row; of None the proxy gives None
\* (NULL, the value being an integer) or fails on the attribute, depending
\* on the release of the library.
max_experience(D, g) ==
    UNION {IF e = None
           THEN {Return(NULL),
                 Raise("AttributeError",
                       <<"NoneType has no attribute ", "experience">>)}
           ELSE {Return(e.experience)} :
           e \in GrowthRate_max_experience_obj(D, g)}

CallMaxExperience ==
    /\ ReadersAdmitted
    /\ \E g \in db.growth_rates : \E r \in max_experience(db, g) :
          ret' = [op |-> "max_experience", self |-> g.id, res |-> r]
    /\ UNCHANGED <<db, committed, loading, load_error>>

\* The rows fed: for growth rates 1 and 2, and 3 which does not exist, the
\* levels around 100 with one of two experience values.
ExperienceRows ==
    {[growth_rate_id |-> g, level |-> l, experience |-> x] :
       g \in {1, 2, 3}, l \in (TopLevel - MaxDelta)..(TopLevel + MaxDelta),
       x \in {10, 20}}

InitGrowth == Loaded([EmptyDB EXCEPT !.growth_rates = IdRows({1, 2})])

NextGrowth ==
    \/ BeginLoad
    \/ \E r \in ExperienceRows :
          Cardinality(db.experience) < MaxExperienceRows /\ Insert("experience", r)
    \/ \E r \in ExperienceRows : InsertCollision("experience", r)
    \/ EndLoadCommit
    \/ EndLoadReject
    \/ CallMaxExperience

SpecGrowth == InitGrowth /\ [][NextGrowth]_vars

\* C19: max_experience of a growth rate is the experience value of the
\* experience row of that growth rate and level 100 as the table holds it
\* when it is read; it is not a column of the growth rate, and it is never
\* the value of a row of another level or growth rate: with no row of level
\* 100 it gives no number.
C19_MaxExperience ==
    /\ \A g \in db.growth_rates : DOMAIN g = {"id"}
    /\ ret.op = "max_experience"
       => IF \E e \in db.experience :
                e.growth_rate_id = ret.self /\ e.level = 100
          THEN /\ ret.res.outcome = "return"
               /\ \E e \in db.experience :
                     /\ e.growth_rate_id = ret.self
                     /\ e.level = 100
                     /\ e.experience = ret.res.value
          ELSE ret.res.outcome = "return" => ret.res.value = NULL

\* C19 witness: max_experience gave the value of the level-100 row while
\* the growth rate has a row of another level with another value.
C19_Witness ==
    /\ ret.op = "max_experience"
    /\ ret.res = Return(20)
    /\ \E e \in db.experience :
          e.growth_rate_id = ret.self /\ e.level # 100 /\ e.experience = 10

(***************************************************************************)
(* Pokemon.pokemon_moves, the backref of PokemonMove.pokemon.              *)
(***************************************************************************)
\* PokemonMove.pokemon = relation(Pokemon, backref='pokemon_moves'): the
\* rows of the creature, with no order_by: in any order.
Pokemon_pokemon_moves(D, p) ==
    Perms({m \in D.pokemon_moves : m.pokemon_id = p.id})

CallPokemonMoves ==
    /\ ReadersAdmitted
    /\ \E p \in db.pokemon : \E moves \in Pokemon_pokemon_moves(db, p) :
          ret' = [op |-> "pokemon_moves", self |-> p.id, res |-> Return(moves)]
    /\ UNCHANGED <<db, committed, loading, load_error>>

PokemonMoveRow(move, level) ==
    [pokemon_id |-> 1, version_group_id |-> 1, move_id |-> move,
     pokemon_move_method_id |-> 1, level |-> level, order |-> NULL]

\* The pokemon_moves tables of at most MaxMoveRows rows of creature 1: two
\* moves learnt at the levels 1..MaxMoveLevel.
PokemonMoveTables ==
    {T \in SUBSET {PokemonMoveRow(m, l) : m \in {1, 2}, l \in 1..MaxMoveLevel} :
        Cardinality(T) <= MaxMoveRows}

InitMoves ==
    \E T \in PokemonMoveTables :
        Loaded([EmptyDB EXCEPT
                  !.pokemon = {PokemonRow(1, NULL, <<"a">>, NullStr)},
                  !.generations = IdRows({1}),
                  !.version_groups = VersionGroupRows({1}, 1),
                  !.moves = IdRows({1, 2}),
                  !.pokemon_move_methods = IdRows({1}),
                  !.pokemon_moves = T])

NextMoves == CallPokemonMoves

SpecMoves == InitMoves /\ [][NextMoves]_vars

\* C20 (as claimed): the pokemon_moves collection of a creature is returned
\* in ascending order of level.
C20_MovesByLevel ==
    ret.op = "pokemon_moves"
    => \A i, j \in 1..Len(ret.res.value) :
          i < j => ret.res.value[i].level <= ret.res.value[j].level

\* Every creature and type reference of the pokemon_types rows of D, and
\* every base-form reference of its creatures, is to a row of D.
References(D) ==
    /\ \A pt \in D.pokemon_types :
          /\ \E p \in D.pokemon : p.id = pt.pokemon_id
          /\ \E ty \in D.types : ty.id = pt.type_id
    /\ \A p \in D.pokemon :
          p.forme_base_pokemon_id = NULL
          \/ \E b \in D.pokemon : b.id = p.forme_base_pokemon_id

\* C9: every committed state has every foreign key referencing an existing
\* row; a load that ends with a row whose foreign key references no row
\* raises an integrity error, stores none of it and leaves the rows committed
\* before present and unchanged.
C9_ReferentialIntegrity ==
    /\ [](References(committed) /\ (~loading => db = committed))
    /\ [][(loading /\ ~loading' /\ ~References(db))
            => /\ load_error' \in {"IntegrityError: foreign key",
                                   "IntegrityError: primary key"}
               /\ db' = committed
               /\ committed' = committed]_vars
    /\ [][\A t \in Tables : committed[t] \subseteq committed'[t]]_vars

\* C9 witness: a load was rejected for an orphaned reference after an
\* earlier load had committed pokemon_types rows, which are still there.
C9_Witness ==
    /\ load_error = "IntegrityError: foreign key"
    /\ ~loading
    /\ committed.pokemon_types # {}
    /\ db = committed

\* C17: the load is an exclusive phase: a read happens only when no load is
\* in progress and is of the committed dataset, whole; nothing a reader was
\* given is held over into a load; and between two loads the dataset does
\* not change, so all readers between them observe the same snapshot.
C17_ExclusiveLoad ==
    /\ [][(ret' # ret /\ ret'.op # "none")
            => /\ ~loading /\ ~loading'
               /\ db = committed
               /\ db' = db /\ committed' = committed]_vars
    /\ [](ret.op # "none" => ~loading /\ db = committed)
    /\ [](ret.op = "types"
            => {ret.via[k] : k \in 1..Len(ret.via)}
                 = {pt \in committed.pokemon_types : pt.pokemon_id = ret.self})
    /\ [][(~loading /\ ~loading') => (db' = db /\ committed' = committed)]_vars

\* C17 witness: after a load was rejected and rolled back, a reader was
\* given the type of a creature that an earlier load committed.
C17_Witness ==
    /\ ret.op = "types"
    /\ Len(ret.via) = 1
    /\ load_error = "IntegrityError: foreign key"
    /\ ~loading

\* C18: while a load is in progress a row is accepted whether or not the
\* rows its foreign keys reference are loaded yet (a creature before its
\* base form, a PokemonType row before its creature or type); when the load
\* ends with a foreign key that references no row it is rejected, and when
\* it ends with every reference resolved it is committed, unless it ended on
\* a key collision.
C18_DeferredResolution ==
    /\ [][(loading /\ \E t \in Tables : db'[t] # db[t] /\ db[t] \subseteq db'[t])
            => loading' /\ load_error' = "none"]_vars
    /\ [][(loading /\ ~loading')
            => IF ~References(db)
               THEN /\ load_error' \in {"IntegrityError: foreign key",
                                         "IntegrityError: primary key"}
                    /\ db' = committed
                    /\ committed' = committed
               ELSE \/ load_error' = "none" /\ committed' = db /\ db' = db
                    \/ load_error' = "IntegrityError: primary key"]_vars
    /\ [](loading => load_error = "none")

\* C18 witness: a load in progress holds a creature whose base form, and a
\* PokemonType row whose creature and type, are not loaded yet.
C18_Witness ==
    /\ loading
    /\ load_error = "none"
    /\ \E p \in db.pokemon :
          /\ p.forme_base_pokemon_id # NULL
          /\ p.forme_base_pokemon_id # p.id
          /\ ~\E b \in db.pokemon : b.id = p.forme_base_pokemon_id
    /\ \E pt \in db.pokemon_types :
          /\ ~\E q \in db.pokemon : q.id = pt.pokemon_id
          /\ ~\E ty \in db.types : ty.id = pt.type_id

\* C10: the types collection of a creature is in strictly ascending order of
\* slot: each entry's slot is greater than the one before, none repeats.
C10_TypesBySlot ==
    ret.op = "types"
    => /\ \A i, j \in 1..Len(ret.via) : i < j => ret.via[i].slot < ret.via[j].slot
       /\ {ret.via[k] : k \in 1..Len(ret.via)}
            = {pt \in db.pokemon_types : pt.pokemon_id = ret.self}
       /\ Len(ret.res.value) = Len(ret.via)
       /\ \A k \in 1..Len(ret.via) : ret.res.value[k].id = ret.via[k].type_id

\* C10 witness: a collection of two types whose order is that of the slots
\* and not that of the type ids.
C10_Witness ==
    /\ ret.op = "types"
    /\ Len(ret.via) = 2
    /\ ret.res.value[1].id > ret.res.value[2].id
    /\ ret.via[1].slot < ret.via[2].slot

(***************************************************************************)
(* The flavor-text collections of abilities, items, moves and creatures,   *)
(* and the version hierarchy they are ordered by.                          *)
(***************************************************************************)
\* Version.version_group and VersionGroup.generation, many-to-one relations.
Version_version_group(D, v) == ManyToOne(D, "version_groups", v.version_group_id)
VersionGroup_generation(D, g) == ManyToOne(D, "generations", g.generation_id)

\* The rows of text table t that belong to the owner.
OwnedText(D, t, owner) == {r \in D[t] : r[TextOwner(t)[1]] = owner.id}

Ability_flavor_text(D, a) ==
    OrderedBy(OwnedText(D, "ability_flavor_text", a), "version_group_id")

Item_flavor_text(D, i) ==
    OrderedBy(OwnedText(D, "item_flavor_text", i), "version_group_id")

\* Faulty variant: the relation() is declared without its order_by.
MoveFlavorTextUnordered(D, m) == Perms(OwnedText(D, "move_flavor_text", m))
Move_flavor_text(D, m) ==
    OrderedBy(OwnedText(D, "move_flavor_text", m), "version_group_id")

Pokemon_flavor_text(D, p) ==
    OrderedBy(OwnedText(D, "pokemon_flavor_text", p), "version_id")

FlavorTables ==
    {"ability_flavor_text", "item_flavor_text", "move_flavor_text",
     "pokemon_flavor_text"}

\* The flavor_text collection of the owner of a row of flavor table t.
Flavor_text(D, t, owner) ==
    CASE t = "ability_flavor_text" -> Ability_flavor_text(D, owner)
      [] t = "item_flavor_text" -> Item_flavor_text(D, owner)
      [] t = "move_flavor_text" -> Move_flavor_text(D, owner)
      [] t = "pokemon_flavor_text" -> Pokemon_flavor_text(D, owner)

CallFlavorText ==
    /\ ReadersAdmitted
    /\ \E t \in FlavorTables : \E owner \in db[TextOwner(t)[2]] :
       \E texts \in Flavor_text(db, t, owner) :
          ret' = [op |-> "flavor_text", table |-> t, self |-> owner.id,
                  res |-> Return(texts)]
    /\ UNCHANGED <<db, committed, loading, load_error>>

\* The flavor texts one owner table may hold: any of the texts of owners 1
\* and 2 in editions 1 and 2.
FlavorRows(t) ==
    SUBSET {TextRow(t, o, e, "x") : o \in {1, 2}, e \in {1, 2}}

\* Two version groups of generation 1 and two versions, each in either
\* group; one flavor table is filled.
InitFlavor ==
    \E g1, g2 \in {1, 2} : \E t \in FlavorTables : \E rows \in FlavorRows(t) :
        Loaded([EmptyDB EXCEPT
                  !.pokemon = {PokemonRow(1, NULL, <<"a">>, NullStr),
                               PokemonRow(2, NULL, <<"a">>, NullStr)},
                  !.abilities = IdRows({1, 2}),
                  !.items = IdRows({1, 2}),
                  !.moves = IdRows({1, 2}),
                  !.generations = IdRows({1}),
                  !.version_groups = VersionGroupRows({1, 2}, 1),
                  !.versions = VersionRows({1}, g1) \cup VersionRows({2}, g2),
                  ![t] = rows])

NextFlavor == CallFlavorText

SpecFlavor == InitFlavor /\ [][NextFlavor]_vars

\* The id of the version group a row of flavor table t was written for.
FlavorVersionGroup(D, t, r) ==
    IF t = "pokemon_flavor_text"
    THEN Version_version_group(D, ManyToOne(D, "versions", r.version_id)).id
    ELSE r.version_group_id

\* C21 as claimed: every flavor_text collection, of an ability, an item, a
\* move or a creature, is returned in ascending order of version group.
C21_ByVersionGroup ==
    ret.op = "flavor_text" =>
        \A i, j \in 1..Len(ret.res.value) : i < j =>
            FlavorVersionGroup(db, ret.table, ret.res.value[i])
              <= FlavorVersionGroup(db, ret.table, ret.res.value[j])

\* C21 amended: the flavor_text collection of an ability, an item or a move
\* holds the owner's rows once each in strictly ascending order of version
\* group id; that of a creature holds the creature's rows once each in
\* strictly ascending order of version id, whatever groups the versions are
\* in.
C21_ByEditionKey ==
    ret.op = "flavor_text" =>
        /\ {ret.res.value[i] : i \in 1..Len(ret.res.value)}
             = {r \in db[ret.table] : r[TextOwner(ret.table)[1]] = ret.self}
        /\ \A i, j \in 1..Len(ret.res.value) : i < j =>
              IF ret.table = "pokemon_flavor_text"
              THEN ret.res.value[i].version_id < ret.res.value[j].version_id
              ELSE ret.res.value[i].version_group_id
                     < ret.res.value[j].version_group_id

\* C21 witness: a creature's two flavor texts are returned in version
\* order, for versions whose version groups descend.
C21_Witness ==
    /\ ret.op = "flavor_text"
    /\ ret.table = "pokemon_flavor_text"
    /\ Len(ret.res.value) = 2
    /\ FlavorVersionGroup(db, ret.table, ret.res.value[1])
         > FlavorVersionGroup(db, ret.table, ret.res.value[2])

(***************************************************************************)
(* The stat rows of a creature, loaded in any order, and Pokemon.stats     *)
(* and Pokemon.stat read from what was loaded.                             *)
(***************************************************************************)
\* A traversal of Pokemon.stats.
CallStats ==
    /\ ReadersAdmitted
    /\ \E p \in db.pokemon : \E stats \in Pokemon_stats(db, p) :
          ret' = [op |-> "stats", self |-> p.id, res |-> Return(stats)]
    /\ UNCHANGED <<db, committed, loading, load_error>>

\* The stats the creature's rows reference: stats 1 and 2 share a name.
StatsStatRows ==
    {[id |-> 1, damage_class_id |-> NULL, name |-> "Attack"],
     [id |-> 2, damage_class_id |-> NULL, name |-> "Attack"],
     [id |-> 3, damage_class_id |-> NULL, name |-> "Special Attack"]}

\* The rows fed: a base value for creature 1 in each stat, and in stat 4,
\* which does not exist.
StatsRows ==
    {[pokemon_id |-> 1, stat_id |-> i, base_stat |-> b, effort |-> 0] :
        i \in {1, 2, 3, 4}, b \in {0, 1}}

InitStats ==
    Loaded([EmptyDB EXCEPT
              !.pokemon = {PokemonRow(1, NULL, <<"a">>, NullStr)},
              !.stats = StatsStatRows])

NextStats ==
    \/ BeginLoad
    \/ \E r \in StatsRows : Insert("pokemon_stats", r)
    \/ \E r \in StatsRows : InsertCollision("pokemon_stats", r)
    \/ EndLoadCommit
    \/ EndLoadReject
    \/ CallStats
    \/ CallStat

SpecStats == InitStats /\ [][NextStats]_vars

\* C22: a creature's stats collection holds the creature's stat rows once
\* each in strictly ascending order of stat id, so at most one row per stat
\* id, whatever the order in which the rows were loaded; and stat(name),
\* which goes through that collection, returns the row with the lowest stat
\* id among the rows whose stat has the name.
C22_StatsByStatId ==
    /\ ret.op = "stats" =>
         /\ {ret.res.value[i] : i \in 1..Len(ret.res.value)}
              = {ps \in db.pokemon_stats : ps.pokemon_id = ret.self}
         /\ \A i, j \in 1..Len(ret.res.value) : i < j =>
               ret.res.value[i].stat_id < ret.res.value[j].stat_id
    /\ (ret.op = "stat" /\ NamedRows(ret.self, Requested(ret.arg)) # {}) =>
         /\ ret.res.outcome = "return"
         /\ ret.res.value \in NamedRows(ret.self, Requested(ret.arg))
         /\ \A q \in NamedRows(ret.self, Requested(ret.arg)) :
               ret.res.value.stat_id <= q.stat_id
    /\ \A r1, r2 \in db.pokemon_stats :
         (r1.pokemon_id = r2.pokemon_id /\ r1.stat_id = r2.stat_id) => r1 = r2

\* C22 witness: the three stat rows of creature 1 are returned in the order
\* of their stat ids, the last load having ended in a key collision.
C22_Witness ==
    /\ ret.op = "stats"
    /\ Len(ret.res.value) = 3
    /\ ret.res.value[1].stat_id = 1
    /\ ret.res.value[3].stat_id = 3
    /\ load_error = "IntegrityError: primary key"

(***************************************************************************)
(* The version hierarchy: generations, version groups and versions loaded  *)
(* in any order, and Version.generation.                                   *)
(***************************************************************************)
\* Version.generation = association_proxy('version_group', 'generation'):
\* the attribute of the version group; of None the proxy gives None or
\* fails on the attribute, depending on the release of the library.
Version_generation(D, v) ==
    IF Version_version_group(D, v) = None
    THEN {Return(None),
          Raise("AttributeError", <<"NoneType has no attribute ", "generation">>)}
    ELSE {Return(VersionGroup_generation(D, Version_version_group(D, v)))}

CallVersionGeneration ==
    /\ ReadersAdmitted
    /\ \E v \in db.versions : \E r \in Version_generation(db, v) :
          ret' = [op |-> "generation", self |-> v.id, res |-> r]
    /\ UNCHANGED <<db, committed, loading, load_error>>

\* The rows fed: two generations, two version groups each of a generation
\* or of none, and a version of a version group or of none.
VersionLoadTables == {"generations", "version_groups", "versions"}

VersionLoadRows(t) ==
    CASE t = "generations" -> IdRows({1, 2})
      [] t = "version_groups" ->
           UNION {VersionGroupRows({1, 2}, g) : g \in {1, 2, NULL}}
      [] t = "versions" -> UNION {VersionRows({1}, g) : g \in {1, 2, NULL}}

InitVersion == Loaded(EmptyDB)

NextVersion ==
    \/ BeginLoad
    \/ \E t \in VersionLoadTables : \E r \in VersionLoadRows(t) : Insert(t, r)
    \/ \E t \in VersionLoadTables : \E r \in VersionLoadRows(t) :
          InsertCollision(t, r)
    \/ \E t \in VersionLoadTables : \E r \in VersionLoadRows(t) :
          InsertInvalid(t, r)
    \/ EndLoadCommit
    \/ EndLoadReject
    \/ CallVersionGeneration

SpecVersion == InitVersion /\ [][NextVersion]_vars

\* C23: in every committed dataset each version references exactly one
\* version group row and each version group exactly one generation row, and
\* Version.generation returns, for every version, the one generation row its
\* version group references: it neither fails nor gives None.
C23_OneGeneration ==
    /\ \A v \in committed.versions :
          Cardinality({g \in committed.version_groups :
                          g.id = v.version_group_id}) = 1
    /\ \A g \in committed.version_groups :
          Cardinality({n \in committed.generations :
                          n.id = g.generation_id}) = 1
    /\ ret.op = "generation" =>
          /\ ret.res.outcome = "return"
          /\ ret.res.value \in db.generations
          /\ \E v \in db.versions : \E g \in db.version_groups :
                /\ v.id = ret.self
                /\ g.id = v.version_group_id
                /\ ret.res.value.id = g.generation_id

\* C23 witness: with both generations and both version groups committed,
\* the generation of version 1 is read and is generation 2.
C23_Witness ==
    /\ ret.op = "generation"
    /\ ret.self = 1
    /\ ret.res = Return([id |-> 2])
    /\ Cardinality(committed.version_groups) = 2
    /\ Cardinality(committed.generations) = 2

(***************************************************************************)
(* Writes of creatures and of item flag links, among them rows with a NULL *)
(* in a non-nullable column, an overlong text or a key already taken.      *)
(***************************************************************************)
\* A text of n characters.
LongText(n) == [k \in 1..n |-> "a"]

\* The rows fed: creatures 1 and 2 with a name that is short, NULL or one
\* character too long and a forme name likewise; links of item 1, of item 2,
\* which does not exist, and of no item, to flag 1, flag 2 or no flag.
WriteTables == {"pokemon", "item_flag_map"}

WriteRows(t) ==
    CASE t = "pokemon" ->
           {PokemonRow(i, NULL, n, f) :
              i \in {1, 2},
              n \in {<<"a">>, NullStr, LongText(PokemonNameLength + 1)},
              f \in {NullStr, <<"a">>, LongText(PokemonFormeNameLength + 1)}}
      [] t = "item_flag_map" ->
           {[item_id |-> i, item_flag_id |-> f] :
              i \in {1, 2, NULL}, f \in {1, 2, NULL}}

InitWrite ==
    Loaded([EmptyDB EXCEPT !.items = IdRows({1}),
                           !.item_flags = IdRows({1, 2})])

NextWrite ==
    \/ BeginLoad
    \/ \E t \in WriteTables : \E r \in WriteRows(t) : Insert(t, r)
    \/ \E t \in WriteTables : \E r \in WriteRows(t) : InsertCollision(t, r)
    \/ \E t \in WriteTables : \E r \in WriteRows(t) : InsertInvalid(t, r)
    \/ EndLoadCommit
    \/ EndLoadReject

SpecWrite == InitWrite /\ [][NextWrite]_vars

\* A creature row with a name of at most 20 characters and a forme name
\* that is NULL or of at most 16 characters; a link with both ids.
WellFormedPokemon(r) ==
    /\ r.name # NullStr
    /\ Len(r.name) <= 20
    /\ r.forme_name = NullStr \/ Len(r.forme_name) <= 16

WellFormedItemFlag(r) == r.item_id # NULL /\ r.item_flag_id # NULL

\* C24: no row with a NULL in a non-nullable column, with a text longer
\* than its column or with a key that another stored row has is ever
\* stored, not even inside a load; a write that stores a row stores one
\* whose key no row had; and a write that ends in an integrity error
\* leaves the dataset as it was committed, the committed rows unchanged.
C24_WriteRejected ==
    /\ [](/\ \A r \in db.pokemon : WellFormedPokemon(r)
          /\ \A r \in db.item_flag_map : WellFormedItemFlag(r)
          /\ \A r1, r2 \in db.pokemon : r1.id = r2.id => r1 = r2)
    /\ [][(loading /\ loading') =>
            /\ \A r \in db'.pokemon \ db.pokemon :
                  \A q \in db.pokemon : q.id # r.id
            /\ \A t \in WriteTables : db[t] \subseteq db'[t]]_vars
    /\ [][(loading /\ load_error' \in {"IntegrityError: primary key",
                                       "IntegrityError: constraint"})
            => /\ ~loading'
               /\ db' = committed
               /\ committed' = committed]_vars
    /\ [][committed' # committed => (loading /\ load_error' = "none")]_vars

\* C24 witness: creature 1 is committed and the load after it, which wrote
\* creature 2, was rejected for a NULL or an overlong text; the dataset is
\* the committed one.
C24_Witness ==
    /\ load_error = "IntegrityError: constraint"
    /\ ~loading
    /\ committed.pokemon = {PokemonRow(1, NULL, <<"a">>, <<"a">>)}
    /\ committed.item_flag_map = {[item_id |-> 1, item_flag_id |-> 2]}
    /\ db = committed

(***************************************************************************)
(* Lookups of stats of two creatures, between loads of their stat rows.    *)
(***************************************************************************)
LookupStatRows ==
    {[id |-> 1, damage_class_id |-> NULL, name |-> "Attack"],
     [id |-> 2, damage_class_id |-> NULL, name |-> "Special Attack"]}

\* The rows fed: for each creature a row of stat 1, of stat 2 and of stat
\* 3, which does not exist.
LookupRows ==
    {[pokemon_id |-> p, stat_id |-> i, base_stat |-> 0, effort |-> 0] :
        p \in {1, 2}, i \in {1, 2, 3}}

InitLookup ==
    Loaded([EmptyDB EXCEPT
              !.pokemon = {PokemonRow(1, NULL, <<"a">>, NullStr),
                           PokemonRow(2, NULL, <<"a">>, NullStr)},
              !.stats = LookupStatRows])

NextLookup ==
    \/ BeginLoad
    \/ \E r \in LookupRows : Insert("pokemon_stats", r)
    \/ \E r \in LookupRows : InsertCollision("pokemon_stats", r)
    \/ EndLoadCommit
    \/ EndLoadReject
    \/ CallStat

SpecLookup == InitLookup /\ [][NextLookup]_vars

\* The last call was a stat lookup that failed.
LookupFailed == ret.op = "stat" /\ ret.res.outcome = "raise"

\* C25: a stat lookup, failed or not, changes no row, committed or not,
\* starts or ends no load and leaves the record of the last integrity error
\* as it was; its failure is a KeyError for a name no stat row of the
\* creature has; and the lookup that follows a failed one, of a stat the
\* same or another creature has a row for, returns that creature's row of
\* the stat.
C25_LookupRecoverable ==
    /\ [][(ret'.op = "stat" /\ ret' # ret) =>
            /\ UNCHANGED <<db, committed, loading, load_error>>
            /\ ret'.res.outcome = "raise" =>
                  /\ ret'.res.exc = "KeyError"
                  /\ NamedRows(ret'.self, Requested(ret'.arg)) = {}]_vars
    /\ [][(/\ LookupFailed
           /\ ret'.op = "stat"
           /\ NamedRows(ret'.self, Requested(ret'.arg)) # {})
            => /\ ret'.res.outcome = "return"
               /\ ret'.res.value.pokemon_id = ret'.self
               /\ ret'.res.value \in db.pokemon_stats
               /\ \E s \in db.stats :
                     /\ s.id = ret'.res.value.stat_id
                     /\ s.name = Requested(ret'.arg)]_vars

\* C25 witness: after a load that was rejected for a key collision, a
\* lookup of Special Attack on creature 1, which has only an Attack row,
\* has failed, while creature 2 has a Special Attack row.
C25_Witness ==
    /\ LookupFailed
    /\ ret.self = 1
    /\ ret.arg = Unicode("Special Attack")
    /\ NamedRows(1, "Attack") # {}
    /\ NamedRows(2, "Special Attack") # {}
    /\ load_error = "IntegrityError: primary key"

(***************************************************************************)
(* Claims about the failures and the absent value of better_damage_class   *)
(* (SpecDamage).                                                           *)
(***************************************************************************)
\* C26: for a creature without an Attack row or without a Special Attack
\* row better_damage_class returns nothing, neither a damage class nor
\* None: it fails with the KeyError of stat() that names the missing stat,
\* Attack when both are missing.
C26_MissingStatFails ==
    (/\ ret.op = "better_damage_class"
     /\ \/ NamedRows(ret.self, "Attack") = {}
        \/ NamedRows(ret.self, "Special Attack") = {})
    => /\ ret.res.outcome = "raise"
       /\ ret.res.exc = "KeyError"
       /\ ret.res.msg = <<"No stat named ",
                          IF NamedRows(ret.self, "Attack") = {}
                          THEN "Attack" ELSE "Special Attack">>

\* C26 witness: the call failed for a creature that has an Attack row of a
\* stat linked to a damage class and no Special Attack row.
C26_Witness ==
    /\ ret.op = "better_damage_class"
    /\ ret.res.outcome = "raise"
    /\ NamedRows(ret.self, "Attack") # {}
    /\ LinkedClass(FirstNamed(ret.self, "Attack")) # None
    /\ NamedRows(ret.self, "Special Attack") = {}

\* C27: better_damage_class returns None only when -5 <= A - S <= 5; when
\* A - S > 5 or A - S < -5 it returns a row of the damage-class table, also
\* when the damage-class reference of the chosen stat is NULL.
C27_AbsentOnlyInBand ==
    (/\ ret.op = "better_damage_class"
     /\ NamedRows(ret.self, "Attack") # {}
     /\ NamedRows(ret.self, "Special Attack") # {})
    => LET diff == FirstNamed(ret.self, "Attack").base_stat
                     - FirstNamed(ret.self, "Special Attack").base_stat
       IN  /\ ret.res = Return(None) => (0 - 5 <= diff /\ diff <= 5)
           /\ (diff > 5 \/ diff < 0 - 5) =>
                 ret.res.value \in db.move_damage_classes

(***************************************************************************)
(* Claims about the base-form reference and Pokemon.formes (SpecForme).    *)
(***************************************************************************)
\* C28 (as claimed): for every creature national_id is the id of the
\* creature that normal_form returns.
C28_NationalIdOfNormalForm ==
    ret.op = "national_id"
    => ret.res.value = normal_form(db, PokemonById(ret.self)).id

\* Pokemon.formes = relation(Pokemon, primaryjoin=Pokemon.id ==
\* Pokemon.forme_base_pokemon_id, ...): the rows whose base-form reference
\* is the creature's id, in any order.
Pokemon_formes(D, p) ==
    Perms({q \in D.pokemon : q.forme_base_pokemon_id = p.id})

CallFormes ==
    /\ ReadersAdmitted
    /\ \E p \in db.pokemon : \E formes \in Pokemon_formes(db, p) :
          ret' = [op |-> "formes", self |-> p.id, res |-> Return(formes)]
    /\ UNCHANGED <<db, committed, loading, load_error>>

CallFormeBasePokemon ==
    /\ ReadersAdmitted
    /\ \E p \in db.pokemon :
          ret' = [op |-> "forme_base_pokemon", self |-> p.id,
                  res |-> Return(Pokemon_forme_base_pokemon(db, p))]
    /\ UNCHANGED <<db, committed, loading, load_error>>

NextFormes == CallFormes \/ CallFormeBasePokemon

SpecFormes == InitForme /\ [][NextFormes]_vars

\* The creatures whose formes collection, as the join gives it, holds q.
BasesOf(q) ==
    {p \in db.pokemon : \E f \in Pokemon_formes(db, p) :
        \E i \in 1..Len(f) : f[i] = q}

\* C29: p.formes holds exactly the creatures whose base-form reference is
\* p's id, once each; q.forme_base_pokemon is None exactly when q has no
\* base-form reference and is otherwise the creature with the referenced
\* id, whose formes hold q; and every creature is in the formes of at most
\* one creature, of none when it has no base-form reference.
C29_FormesInverse ==
    /\ ret.op = "formes" =>
         /\ {ret.res.value[i] : i \in 1..Len(ret.res.value)}
              = {q \in db.pokemon : q.forme_base_pokemon_id = ret.self}
         /\ \A i, j \in 1..Len(ret.res.value) :
               ret.res.value[i] = ret.res.value[j] => i = j
    /\ ret.op = "forme_base_pokemon" =>
         IF PokemonById(ret.self).forme_base_pokemon_id = NULL
         THEN ret.res.value = None
         ELSE /\ ret.res.value \in db.pokemon
              /\ ret.res.value.id = PokemonById(ret.self).forme_base_pokemon_id
              /\ ret.res.value \in BasesOf(PokemonById(ret.self))
    /\ \A q \in db.pokemon :
         /\ Cardinality(BasesOf(q)) <= 1
         /\ q.forme_base_pokemon_id = NULL => BasesOf(q) = {}

\* C29 witness: the base form of a creature is read and is creature 0,
\* which has two forms.
C29_Witness ==
    /\ ret.op = "forme_base_pokemon"
    /\ ret.res.value \in db.pokemon
    /\ ret.res.value.id = 0
    /\ Cardinality({q \in db.pokemon : q.forme_base_pokemon_id = 0}) = 2

(***************************************************************************)
(* Pokemon.child_pokemon and its backref Pokemon.parent_pokemon, read      *)
(* between loads of the evolution links.                                   *)
(***************************************************************************)
\* Pokemon.child_pokemon = relation(Pokemon, secondary=PokemonEvolution,
\* ...): the creatures that an evolution row leads to from p, in any order.
Pokemon_child_pokemon(D, p) ==
    Perms({q \in D.pokemon :
              \E e \in D.pokemon_evolution :
                 e.from_pokemon_id = p.id /\ e.to_pokemon_id = q.id})

CallChildPokemon ==
    /\ ReadersAdmitted
    /\ \E p \in db.pokemon : \E children \in Pokemon_child_pokemon(db, p) :
          ret' = [op |-> "child_pokemon", self |-> p.id,
                  res |-> Return(children)]
    /\ UNCHANGED <<db, committed, loading, load_error>>

NextChildren ==
    \/ BeginLoad
    \/ \E r \in EvolutionRows : Insert("pokemon_evolution", r)
    \/ \E r \in EvolutionRows : InsertCollision("pokemon_evolution", r)
    \/ EndLoadCommit
    \/ EndLoadReject
    \/ CallParentPokemon
    \/ CallChildPokemon

SpecChildren == InitEvolution /\ [][NextChildren]_vars

\* C30: at most one evolution row leads to each creature, in every state;
\* p.child_pokemon holds, once each, exactly the creatures that an
\* evolution row leads to from p, which are the creatures whose
\* parent_pokemon is p; and q.parent_pokemon, when q has one, is a creature
\* with an evolution row that leads to q.
C30_ParentChildInverse ==
    /\ \A e1, e2 \in db.pokemon_evolution :
          e1.to_pokemon_id = e2.to_pokemon_id => e1 = e2
    /\ ret.op = "child_pokemon" =>
          /\ \A q \in db.pokemon :
                (\E i \in 1..Len(ret.res.value) : ret.res.value[i] = q)
                  <=> Pokemon_parent_pokemon(db, q) = PokemonById(ret.self)
          /\ \A q \in db.pokemon :
                (\E i \in 1..Len(ret.res.value) : ret.res.value[i] = q)
                  <=> (\E e \in db.pokemon_evolution :
                          /\ e.from_pokemon_id = ret.self
                          /\ e.to_pokemon_id = q.id)
          /\ \A i, j \in 1..Len(ret.res.value) :
                ret.res.value[i] = ret.res.value[j] => i = j
    /\ (ret.op = "parent_pokemon" /\ ret.res.value # None) =>
          /\ ret.res.value \in db.pokemon
          /\ \E e \in db.pokemon_evolution :
                /\ e.from_pokemon_id = ret.res.value.id
                /\ e.to_pokemon_id = ret.self

\* C30 witness: creature 1 has the two children 2 and 3, read after a load
\* that fed a second row leading to one of them was rejected.
C30_Witness ==
    /\ ret.op = "child_pokemon"
    /\ ret.self = 1
    /\ Len(ret.res.value) = 2
    /\ ret.res.value[1].id = 3
    /\ ret.res.value[2].id = 2
    /\ load_error = "IntegrityError: primary key"

====
